---- MODULE Spec2Model ----
(***************************************************************************)
(* Model of src/timer.h: Timer<NAME_TYPE> (the measurement series), its    *)
(* DebugStateTracker base and the TimeStamp record, built with             *)
(* TIMER_THREADS (the default, thread-safe build).                         *)
(*                                                                         *)
(* Every thread is a caller of the public interface.  A call is executed   *)
(* as the sequence of statements of the source, one action per statement   *)
(* that reads or writes shared state; pc[t] is the statement thread t      *)
(* executes next and op[t] the public function it called.                  *)
(***************************************************************************)
EXTENDS Integers, Sequences, FiniteSets, TLC

(***************************************************************************)
(* Bounds of the model.                                                    *)
(***************************************************************************)
\* number of caller threads; a thread's number is its std::thread::id
NumThreads == 2
\* records a series may hold under the concurrent specification
MaxRecords == 3
\* records a series may hold under the sequential specification
MaxSeqRecords == 3
\* records a series may hold under the labelling specification
MaxLabelRecords == 12
\* explicitly labelled add(label) calls of one session, labelling specification
MaxExplicit == 2
\* readings the monotonic clock can take: 0..MaxClock
MaxClock == 1
\* records a series may hold under the ordering specification
MaxOrderRecords == 4

Threads == 1..NumThreads
NoThread == 0

(***************************************************************************)
(* Build configuration and label types.                                    *)
(***************************************************************************)
\* NAME_TYPE: int (std::is_convertible<int, NAME_TYPE>), std::string,
\* const char *, or any other default-constructible type
NameTypes == {"int", "string", "cstr", "other"}

\* uint64_t arithmetic wraps modulo 2^64.  TLC's integers are 32 bits wide, so
\* the modulus is represented by 2^30: all that is read of a wrapped index is
\* whether it lies inside 0..size-1, and every size of the model is far below.
UInt64Modulus == 2^30
UInt64(x) == x % UInt64Modulus

\* messages written to std::cerr before print_stacktrace_and_exit()
NoError == "none"
ErrInitTwice == "DebugStateTracker::init() called twice"
ErrAddBeforeInit == "add() called before init()"
ErrNotLoggable == "print_current() called without ever adding events"
\* an out-of-range read of the vector's storage may end the process
Crash == "SIGSEGV"

VARIABLES
    \* ---- build configuration, fixed after construction
    TIMER_DEBUG,            \* TRUE iff built with #define TIMER_DEBUG
    NAME_TYPE,              \* the template argument
    \* ---- Timer fields
    time_stamps,            \* std::vector<TimeStamp>
    id,                     \* int id: the auto-label counter
    thread_ids,             \* std::set<std::thread::id>
    multithreading_guard,   \* owner of the std::mutex, NoThread when free
    \* ---- DebugStateTracker fields (unused when ~TIMER_DEBUG)
    initialized,
    number_of_events,
    \* ---- environment
    clock,                  \* last reading of std::chrono::steady_clock
    error,                  \* NoError, or why the process was terminated
    output,                 \* lines written to std::cout by the last query
    accessed,               \* indices of time_stamps read with operator[] by the last query
    \* ---- per thread
    pc,                     \* next statement
    op,                     \* public function being executed
    name,                   \* argument NAME_TYPE name of add(name)
    tmp,                    \* value of id read by id++ / ++id
    slot,                   \* end position read by emplace_back
    rec,                    \* TimeStamp under construction
    length,                 \* const uint64_t length of log()
    i,                      \* loop index of log()
    \* ---- history (not program state)
    reinit,                 \* the call in progress, or the last one to return, is an
                            \* initialize() that found the series holding records
    add_calls,              \* add calls issued since the last initialize()
                            \* returned; NoSession when there is none
    last_call,              \* whether the call that returned last was reset() or
                            \* log(), and the lines it wrote if it was log()
    raced                   \* initialize() was called while another thread was
                            \* inside initialize()

config == <<TIMER_DEBUG, NAME_TYPE>>
shared == <<time_stamps, id, thread_ids>>
tracker == <<initialized, number_of_events>>
locals == <<name, tmp, slot, rec, length, i>>
history == <<reinit, add_calls, last_call, raced>>
vars == <<config, shared, multithreading_guard, tracker, clock, error, output,
          accessed, pc, op, locals, history>>

NoSession == 0 - 1
\* no label: the value-initialized NAME_TYPE
NoName ==
    CASE NAME_TYPE = "int" -> 0
      [] NAME_TYPE \in {"string", "cstr"} -> <<>>
      [] OTHER -> "-"
NoRec == [name |-> NoName, time_stamp |-> 0, thread_id |-> NoThread]
NoCall == [op |-> "none", output |-> <<>>]

(***************************************************************************)
(* Labels.  A textual label is the sequence of its characters, so that     *)
(* std::to_string and integer_string_literal_helper are computed, digit by *)
(* digit, as the library and the source compute them.                      *)
(***************************************************************************)
\* const char *ints[] of integer_string_literal_helper
ints == <<"0", "1", "2", "3", "4", "5", "6", "7", "8", "9">>

RECURSIVE Digits(_)
Digits(n) == IF n < 10 THEN <<ints[n + 1]>> ELSE Digits(n \div 10) \o <<ints[(n % 10) + 1]>>

\* std::to_string(int)
to_string_int(n) == IF n < 0 THEN <<"-">> \o Digits(0 - n) ELSE Digits(n)

integer_string_literal_helper(k) == IF k < 10 THEN <<ints[k + 1]>> ELSE <<>>

\* NAME_TYPE{}: the value-initialized label of add({})
DefaultName == "{}"

\* the argument add() passes to add(NAME_TYPE) when the counter reads k
AutoName(k) ==
    CASE NAME_TYPE = "int" -> k
      [] NAME_TYPE = "string" -> to_string_int(k)
      [] NAME_TYPE = "cstr" -> integer_string_literal_helper(k)
      [] OTHER -> DefaultName

\* labels the callers of add(label) pass: values add() never generates
CallerLabels ==
    CASE NAME_TYPE = "int" -> {0 - 1}
      [] NAME_TYPE \in {"string", "cstr"} -> {<<"A">>}
      [] OTHER -> {"x"}

(***************************************************************************)
(* Pure member functions.                                                  *)
(***************************************************************************)
\* as get_time_ns, reading a clock that can be set back (system_clock)
get_time_ns_system_clock == 0 .. MaxClock

\* steady_clock::now() in nanoseconds: a monotonic clock never reads less than
\* its last reading
get_time_ns == clock .. MaxClock

\* TimeStamp(NAME_TYPE id, std::thread::id thread_id), with time_stamp the
\* reading now of get_time_ns()
TimeStamp(n, t, now) == [name |-> n, time_stamp |-> now, thread_id |-> t]

get_diff(first, last) == last.time_stamp - first.time_stamp

size == Len(time_stamps)

\* indices operator[] may be used with
InRange == 0 .. (size - 1)

\* time_stamps[index] for an index inside the vector (0-based as in the source)
At(index) == time_stamps[index + 1]

get_time_since_init(index) == get_diff(At(0), At(index))

\* as get_time_since_last, measured from the reference event
get_time_since_last_from_init(index) == get_diff(At(0), At(index))

get_time_since_last(index) == get_diff(At(UInt64(index - 1)), At(index))

\* the loop counts the elements before id_; std::set iterates its elements in
\* increasing order
get_thread_name(id_) ==
    IF id_ \in thread_ids
    THEN Cardinality({x \in thread_ids : x < id_})
    ELSE 0 - 1

\* as has_threads, true from the first recording thread on
has_threads_from_one == Cardinality(thread_ids) > 0

has_threads == Cardinality(thread_ids) > 1

\* "" is <<>>, " in thread : k" is <<k>>
thread_output_formatter(time_stamp) ==
    IF ~has_threads THEN <<>> ELSE <<get_thread_name(time_stamp.thread_id)>>

\* TimeStamp::to_string: the text is the quotient value / divisor, written by
\* the stream in its default format, followed by the suffix; the branches are
\* tried from the top
to_string(time) ==
    IF time >= 100000000
    THEN [value |-> time, divisor |-> 1000000000, suffix |-> "s"]
    ELSE IF time >= 100000
    THEN [value |-> time, divisor |-> 1000000, suffix |-> "ms"]
    ELSE IF time >= 100
    THEN [value |-> time, divisor |-> 1000, suffix |-> "??s"]
    ELSE [value |-> time, divisor |-> 1, suffix |-> "ns"]

\* a line without a duration
NoText == [value |-> 0, divisor |-> 1, suffix |-> ""]

\* one output line of print_current() / log() for the record at index
Line(index) ==
    [name |-> At(index).name,
     after |-> to_string(get_time_since_last(index)),
     at |-> to_string(get_time_since_init(index)),
     thread |-> thread_output_formatter(At(index))]

\* what is printed after reading outside the vector's storage
GarbageLine == [name |-> "?", after |-> NoText, at |-> NoText, thread |-> <<>>]

\* "Timer :\n", the first line of log()
HeaderLine == [name |-> "Timer :", after |-> NoText, at |-> NoText, thread |-> <<>>]

(***************************************************************************)
(* Initial state: a default-constructed Timer, every thread outside it.    *)
(***************************************************************************)
Constructed(now) ==
    /\ TIMER_DEBUG \in BOOLEAN
    /\ NAME_TYPE \in NameTypes
    /\ time_stamps = <<>>
    /\ id = 0
    /\ thread_ids = {}
    /\ multithreading_guard = NoThread
    /\ initialized = FALSE
    /\ number_of_events = 0
    /\ clock = now
    /\ error = NoError
    /\ output = <<>>
    /\ accessed = {}
    /\ pc = [t \in Threads |-> "idle"]
    /\ op = [t \in Threads |-> "none"]
    /\ name = [t \in Threads |-> NoName]
    /\ tmp = [t \in Threads |-> 0]
    /\ slot = [t \in Threads |-> 0]
    /\ rec = [t \in Threads |-> NoRec]
    /\ length = [t \in Threads |-> 0]
    /\ i = [t \in Threads |-> 0]
    /\ reinit = FALSE
    /\ add_calls = NoSession
    /\ last_call = NoCall
    /\ raced = FALSE

Init == Constructed(0)

(***************************************************************************)
(* Control.                                                                *)
(***************************************************************************)
Running == error = NoError

Goto(t, label) == pc' = [pc EXCEPT ![t] = label]

\* print_stacktrace_and_exit(): the process ends, no thread takes another step
Terminate(t, message) ==
    /\ error' = message
    /\ Goto(t, "terminated")

\* the public function of thread t returns to its caller
Return(t) ==
    /\ pc' = [pc EXCEPT ![t] = "idle"]
    /\ op' = [op EXCEPT ![t] = "none"]
    /\ name' = [name EXCEPT ![t] = NoName]
    /\ tmp' = [tmp EXCEPT ![t] = 0]
    /\ slot' = [slot EXCEPT ![t] = 0]
    /\ rec' = [rec EXCEPT ![t] = NoRec]
    /\ length' = [length EXCEPT ![t] = 0]
    /\ i' = [i EXCEPT ![t] = 0]
    /\ add_calls' = (IF op[t] = "initialize" THEN 0 ELSE add_calls)
    /\ last_call' = IF op[t] = "log" THEN [op |-> "log", output |-> output]
                    ELSE IF op[t] = "reset" THEN [op |-> "reset", output |-> <<>>]
                    ELSE NoCall
    /\ UNCHANGED <<reinit, raced>>

(***************************************************************************)
(* Calls.  The series is owned by its caller: initialize(), reset() and    *)
(* the queries are called while no other thread is inside the timer (the   *)
(* source documents the logging functions as unsynchronized and meant for  *)
(* the end of the parallel section); add calls are issued concurrently.    *)
(***************************************************************************)
Alone(t) == \A u \in Threads \ {t} : pc[u] = "idle"

Appending == {u \in Threads : op[u] \in {"add", "add_auto"}}

NoOwnerCall == \A u \in Threads : op[u] \in {"none", "add", "add_auto"}

Enter(t, f, label) ==
    /\ Running
    /\ pc[t] = "idle"
    /\ pc' = [pc EXCEPT ![t] = label]
    /\ op' = [op EXCEPT ![t] = f]
    /\ output' = <<>>
    /\ accessed' = {}

CallInitialize(t) ==
    /\ Alone(t)
    /\ Enter(t, "initialize", "init_check")
    /\ reinit' = (time_stamps # <<>>)
    /\ add_calls' = NoSession
    /\ UNCHANGED <<config, shared, multithreading_guard, tracker, clock, error,
                   locals, last_call, raced>>

\* initialize() called while another thread is inside initialize()
CallInitializeRacing(t) ==
    /\ \E u \in Threads \ {t} : op[u] = "initialize"
    /\ Enter(t, "initialize", "init_check")
    /\ reinit' = (time_stamps # <<>>)
    /\ add_calls' = NoSession
    /\ raced' = TRUE
    /\ UNCHANGED <<config, shared, multithreading_guard, tracker, clock, error,
                   locals, last_call>>

CallReset(t) ==
    /\ Alone(t)
    /\ Enter(t, "reset", "reset_debug")
    /\ reinit' = FALSE
    /\ add_calls' = NoSession
    /\ UNCHANGED <<config, shared, multithreading_guard, tracker, clock, error,
                   locals, last_call, raced>>

\* add(label) with the caller's label n; max bounds the series' length
CallAdd(t, n, max) ==
    /\ NoOwnerCall
    /\ size + Cardinality(Appending) < max
    /\ Enter(t, "add", "lock")
    /\ name' = [name EXCEPT ![t] = n]
    /\ reinit' = FALSE
    /\ add_calls' = IF add_calls = NoSession THEN NoSession ELSE add_calls + 1
    /\ UNCHANGED <<config, shared, multithreading_guard, tracker, clock, error,
                   tmp, slot, rec, length, i, last_call, raced>>

\* add()
CallAddAuto(t, max) ==
    /\ NoOwnerCall
    /\ size + Cardinality(Appending) < max
    /\ Enter(t, "add_auto", "auto_read")
    /\ reinit' = FALSE
    /\ add_calls' = IF add_calls = NoSession THEN NoSession ELSE add_calls + 1
    /\ UNCHANGED <<config, shared, multithreading_guard, tracker, clock, error,
                   locals, last_call, raced>>

CallPrintCurrent(t) ==
    /\ Alone(t)
    /\ Enter(t, "print_current", "print_check")
    /\ reinit' = FALSE
    /\ UNCHANGED <<config, shared, multithreading_guard, tracker, clock, error,
                   locals, add_calls, last_call, raced>>

CallLog(t) ==
    /\ Alone(t)
    /\ Enter(t, "log", "log_begin")
    /\ reinit' = FALSE
    /\ UNCHANGED <<config, shared, multithreading_guard, tracker, clock, error,
                   locals, add_calls, last_call, raced>>

(***************************************************************************)
(* DebugStateTracker.  Without TIMER_DEBUG every member is a no-op.        *)
(***************************************************************************)
\* as debug_reset, forgetting to clear initialized
debug_reset_keeps_initialized ==
    IF TIMER_DEBUG
    THEN number_of_events' = 0 /\ UNCHANGED initialized
    ELSE UNCHANGED tracker

debug_reset ==
    IF TIMER_DEBUG
    THEN initialized' = FALSE /\ number_of_events' = 0
    ELSE UNCHANGED tracker

\* debug_init() reports a second call
debug_init_fails == TIMER_DEBUG /\ initialized

debug_init ==
    /\ initialized' = (IF TIMER_DEBUG THEN TRUE ELSE initialized)
    /\ UNCHANGED number_of_events

\* debug_check_if_initialized() reports add() before init()
debug_check_if_initialized_fails == TIMER_DEBUG /\ ~initialized

\* as debug_add_event, counting nothing
debug_add_event_counts_nothing == UNCHANGED tracker

debug_add_event ==
    /\ number_of_events' = (IF TIMER_DEBUG THEN number_of_events + 1 ELSE number_of_events)
    /\ UNCHANGED initialized

\* as debug_check_if_loggable_fails, not counting the reference event
debug_check_if_loggable_fails_below_one == TIMER_DEBUG /\ number_of_events < 1

\* debug_check_if_loggable() reports print_current() without events
debug_check_if_loggable_fails == TIMER_DEBUG /\ number_of_events <= 1

(***************************************************************************)
(* reset(), called by the user or by initialize().                         *)
(***************************************************************************)
ResetDebug(t) ==
    /\ Running /\ pc[t] = "reset_debug"
    /\ debug_reset
    /\ Goto(t, "reset_clear")
    /\ UNCHANGED <<config, shared, multithreading_guard, clock, error, output,
                   accessed, op, locals, history>>

ResetClear(t) ==
    /\ Running /\ pc[t] = "reset_clear"
    /\ time_stamps' = <<>>
    /\ Goto(t, "reset_id")
    /\ UNCHANGED <<config, id, thread_ids, multithreading_guard, tracker, clock,
                   error, output, accessed, op, locals, history>>

\* as ResetId, leaving the counter where it was
ResetId_keeps_id(t) ==
    /\ Running /\ pc[t] = "reset_id"
    /\ Goto(t, "reset_threads")
    /\ UNCHANGED <<config, shared, multithreading_guard, tracker, clock, error,
                   output, accessed, op, locals, history>>

ResetId(t) ==
    /\ Running /\ pc[t] = "reset_id"
    /\ id' = 0
    /\ Goto(t, "reset_threads")
    /\ UNCHANGED <<config, time_stamps, thread_ids, multithreading_guard, tracker,
                   clock, error, output, accessed, op, locals, history>>

\* as ResetThreads, leaving the known threads in the set
ResetThreads_keeps_threads(t) ==
    /\ Running /\ pc[t] = "reset_threads"
    /\ IF op[t] = "initialize"
       THEN Goto(t, "init_debug") /\ UNCHANGED <<op, locals, history>>
       ELSE Return(t)
    /\ UNCHANGED <<config, shared, multithreading_guard, tracker, clock,
                   error, output, accessed>>

ResetThreads(t) ==
    /\ Running /\ pc[t] = "reset_threads"
    /\ thread_ids' = {}
    /\ IF op[t] = "initialize"
       THEN Goto(t, "init_debug") /\ UNCHANGED <<op, locals, history>>
       ELSE Return(t)
    /\ UNCHANGED <<config, time_stamps, id, multithreading_guard, tracker, clock,
                   error, output, accessed>>

(***************************************************************************)
(* initialize(): if (!time_stamps.empty()) reset(); debug_init(); add();   *)
(***************************************************************************)
\* as InitCheck, without the reset of a series that holds records
InitCheck_no_reset(t) ==
    /\ Running /\ pc[t] = "init_check"
    /\ Goto(t, "init_debug")
    /\ UNCHANGED <<config, shared, multithreading_guard, tracker, clock, error,
                   output, accessed, op, locals, history>>

InitCheck(t) ==
    /\ Running /\ pc[t] = "init_check"
    /\ IF time_stamps # <<>> THEN Goto(t, "reset_debug") ELSE Goto(t, "init_debug")
    /\ UNCHANGED <<config, shared, multithreading_guard, tracker, clock, error,
                   output, accessed, op, locals, history>>

InitDebug(t) ==
    /\ Running /\ pc[t] = "init_debug"
    /\ IF debug_init_fails
       THEN Terminate(t, ErrInitTwice) /\ UNCHANGED tracker
       ELSE debug_init /\ Goto(t, "auto_read") /\ UNCHANGED error
    /\ UNCHANGED <<config, shared, multithreading_guard, clock, output, accessed,
                   op, locals, history>>

(***************************************************************************)
(* add(): the label is made from id and id is incremented outside of       *)
(* add(NAME_TYPE), before the call for int (add(id++)) and after it for    *)
(* the textual types (add(...); ++id;).  An increment is a read of id      *)
(* followed by a write.                                                    *)
(***************************************************************************)
AutoRead(t) ==
    /\ Running /\ pc[t] = "auto_read"
    /\ name' = [name EXCEPT ![t] = AutoName(id)]
    /\ IF NAME_TYPE = "int"
       THEN tmp' = [tmp EXCEPT ![t] = id] /\ Goto(t, "auto_incr")
       ELSE UNCHANGED tmp /\ Goto(t, "lock")
    /\ UNCHANGED <<config, shared, multithreading_guard, tracker, clock, error,
                   output, accessed, op, slot, rec, length, i, history>>

AutoIncrRead(t) ==
    /\ Running /\ pc[t] = "auto_incr_read"
    /\ tmp' = [tmp EXCEPT ![t] = id]
    /\ Goto(t, "auto_incr")
    /\ UNCHANGED <<config, shared, multithreading_guard, tracker, clock, error,
                   output, accessed, op, name, slot, rec, length, i, history>>

AutoIncr(t) ==
    /\ Running /\ pc[t] = "auto_incr"
    /\ id' = tmp[t] + 1
    /\ IF NAME_TYPE = "int"
       THEN Goto(t, "lock") /\ UNCHANGED <<op, locals, history>>
       ELSE Return(t)
    /\ UNCHANGED <<config, time_stamps, thread_ids, multithreading_guard, tracker,
                   clock, error, output, accessed>>

(***************************************************************************)
(* add(NAME_TYPE name): std::lock_guard lock(multithreading_guard);        *)
(* add_thread_unsafe(name);                                                *)
(***************************************************************************)
\* as Lock, without waiting for the mutex to be free
Lock_no_exclusion(t) ==
    /\ Running /\ pc[t] = "lock"
    /\ multithreading_guard' = t
    /\ Goto(t, "add_check")
    /\ UNCHANGED <<config, shared, tracker, clock, error, output, accessed, op,
                   locals, history>>

Lock(t) ==
    /\ Running /\ pc[t] = "lock"
    /\ multithreading_guard = NoThread
    /\ multithreading_guard' = t
    /\ Goto(t, "add_check")
    /\ UNCHANGED <<config, shared, tracker, clock, error, output, accessed, op,
                   locals, history>>

\* debug_check_if_initialized(); debug_add_event();
AddCheck(t) ==
    /\ Running /\ pc[t] = "add_check"
    /\ IF debug_check_if_initialized_fails
       THEN Terminate(t, ErrAddBeforeInit) /\ UNCHANGED tracker
       ELSE debug_add_event /\ Goto(t, "insert") /\ UNCHANGED error
    /\ UNCHANGED <<config, shared, multithreading_guard, clock, output, accessed,
                   op, locals, history>>

\* thread_ids.insert(std::this_thread::get_id())
InsertThread(t) ==
    /\ Running /\ pc[t] = "insert"
    /\ thread_ids' = thread_ids \cup {t}
    /\ Goto(t, "construct")
    /\ UNCHANGED <<config, time_stamps, id, multithreading_guard, tracker, clock,
                   error, output, accessed, op, locals, history>>

\* emplace_back, first half: the TimeStamp is constructed at the vector's end,
\* and its member initializer reads the clock
Construct(t) ==
    /\ Running /\ pc[t] = "construct"
    /\ slot' = [slot EXCEPT ![t] = size]
    /\ \E now \in get_time_ns :
        /\ clock' = now
        /\ rec' = [rec EXCEPT ![t] = TimeStamp(name[t], t, now)]
    /\ Goto(t, "push")
    /\ UNCHANGED <<config, shared, multithreading_guard, tracker, error, output,
                   accessed, op, name, tmp, length, i, history>>

\* as Push, putting the element in front of the others
Push_front(t) ==
    /\ Running /\ pc[t] = "push"
    /\ time_stamps' = <<rec[t]>> \o SubSeq(time_stamps, 1, slot[t])
    /\ Goto(t, "unlock")
    /\ UNCHANGED <<config, id, thread_ids, multithreading_guard, tracker, clock,
                   error, output, accessed, op, locals, history>>

\* the elements clear() destroyed between the two halves of an emplace_back,
\* from the vector's end up to the position the element was constructed at
Destroyed(t) == [k \in 1 .. (slot[t] - size) |-> NoRec]

\* emplace_back, second half: the end of the vector is set one past the
\* position the element was constructed at.  If another thread's clear() has
\* moved the end below that position in between, the two calls raced and the
\* outcome is undefined: the element is found at the new end, or behind the
\* destroyed elements, or the process is ended by a fault.
Push(t) ==
    /\ Running /\ pc[t] = "push"
    /\ IF slot[t] <= size
       THEN /\ time_stamps' = Append(SubSeq(time_stamps, 1, slot[t]), rec[t])
            /\ Goto(t, "unlock")
            /\ UNCHANGED error
       ELSE \/ /\ time_stamps' = Append(time_stamps, rec[t])
               /\ Goto(t, "unlock")
               /\ UNCHANGED error
            \/ /\ time_stamps' = Append(time_stamps \o Destroyed(t), rec[t])
               /\ Goto(t, "unlock")
               /\ UNCHANGED error
            \/ /\ Terminate(t, Crash)
               /\ UNCHANGED time_stamps
    /\ UNCHANGED <<config, id, thread_ids, multithreading_guard, tracker, clock,
                   output, accessed, op, locals, history>>

\* as Unlock, returning without releasing the mutex
Unlock_keeps_guard(t) ==
    /\ Running /\ pc[t] = "unlock"
    /\ IF op[t] \in {"initialize", "add_auto"} /\ NAME_TYPE \in {"string", "cstr"}
       THEN Goto(t, "auto_incr_read") /\ UNCHANGED <<op, locals, history>>
       ELSE Return(t)
    /\ UNCHANGED <<config, shared, multithreading_guard, tracker, clock, error,
                   output, accessed>>

\* ~lock_guard, and the return to add() or to the caller
Unlock(t) ==
    /\ Running /\ pc[t] = "unlock"
    /\ multithreading_guard' = NoThread
    /\ IF op[t] \in {"initialize", "add_auto"} /\ NAME_TYPE \in {"string", "cstr"}
       THEN Goto(t, "auto_incr_read") /\ UNCHANGED <<op, locals, history>>
       ELSE Return(t)
    /\ UNCHANGED <<config, shared, tracker, clock, error, output, accessed>>

(***************************************************************************)
(* print_current() and log().                                              *)
(***************************************************************************)
\* as PrintCheck, counting the query as an event
PrintCheck_adds_event(t) ==
    /\ Running /\ pc[t] = "print_check"
    /\ IF debug_check_if_loggable_fails
       THEN Terminate(t, ErrNotLoggable) /\ UNCHANGED tracker
       ELSE debug_add_event /\ Goto(t, "print_read") /\ UNCHANGED error
    /\ UNCHANGED <<config, shared, multithreading_guard, clock, output,
                   accessed, op, locals, history>>

PrintCheck(t) ==
    /\ Running /\ pc[t] = "print_check"
    /\ IF debug_check_if_loggable_fails
       THEN Terminate(t, ErrNotLoggable)
       ELSE Goto(t, "print_read") /\ UNCHANGED error
    /\ UNCHANGED <<config, shared, multithreading_guard, tracker, clock, output,
                   accessed, op, locals, history>>

\* as PrintIndex, one past the last record
PrintIndex_size == UInt64(size)

\* const uint64_t index = time_stamps.size() - 1;
PrintIndex == UInt64(size - 1)

\* indices print_current() reads: [index], [index - 1] and [0]
PrintReads == {PrintIndex, UInt64(PrintIndex - 1), 0}

\* A read outside the vector's storage is undefined: the process may be ended
\* by the fault, or go on and print whatever was read.
PrintRead(t) ==
    /\ Running /\ pc[t] = "print_read"
    /\ accessed' = PrintReads
    /\ IF PrintReads \subseteq InRange
       THEN /\ output' = <<Line(PrintIndex)>>
            /\ Return(t)
            /\ UNCHANGED error
       ELSE \/ /\ output' = <<GarbageLine>>
               /\ Return(t)
               /\ UNCHANGED error
            \/ /\ Terminate(t, Crash)
               /\ UNCHANGED <<output, op, locals, history>>
    /\ UNCHANGED <<config, shared, multithreading_guard, tracker, clock>>

LogBegin(t) ==
    /\ Running /\ pc[t] = "log_begin"
    /\ length' = [length EXCEPT ![t] = size]
    /\ i' = [i EXCEPT ![t] = 1]
    /\ output' = <<HeaderLine>>
    /\ Goto(t, "log_loop")
    /\ UNCHANGED <<config, shared, multithreading_guard, tracker, clock, error,
                   accessed, op, name, tmp, slot, rec, history>>

\* indices one iteration of log() reads: [i], [i - 1] and [0]
LogReads(index) == {index, UInt64(index - 1), 0}

\* as LogLoop, leaving the loop one record early
LogLoop_one_short(t) ==
    /\ Running /\ pc[t] = "log_loop"
    /\ IF i[t] + 1 < length[t]
       THEN /\ accessed' = accessed \cup LogReads(i[t])
            /\ output' = Append(output, Line(i[t]))
            /\ i' = [i EXCEPT ![t] = i[t] + 1]
            /\ UNCHANGED <<pc, op, name, tmp, slot, rec, length, history>>
       ELSE /\ Return(t)
            /\ UNCHANGED <<output, accessed>>
    /\ UNCHANGED <<config, shared, multithreading_guard, tracker, clock, error>>

LogLoop(t) ==
    /\ Running /\ pc[t] = "log_loop"
    /\ IF i[t] < length[t]
       THEN /\ accessed' = accessed \cup LogReads(i[t])
            /\ output' = Append(output, Line(i[t]))
            /\ i' = [i EXCEPT ![t] = i[t] + 1]
            /\ UNCHANGED <<pc, op, name, tmp, slot, rec, length, history>>
       ELSE /\ Return(t)
            /\ UNCHANGED <<output, accessed>>
    /\ UNCHANGED <<config, shared, multithreading_guard, tracker, clock, error>>

(***************************************************************************)
(* Specifications.                                                         *)
(***************************************************************************)
\* a statement of a call in progress
Step(t) ==
    \/ ResetDebug(t) \/ ResetClear(t) \/ ResetId(t) \/ ResetThreads(t)
    \/ InitCheck(t) \/ InitDebug(t)
    \/ AutoRead(t) \/ AutoIncrRead(t) \/ AutoIncr(t)
    \/ Lock(t) \/ AddCheck(t) \/ InsertThread(t) \/ Construct(t) \/ Push(t)
    \/ Unlock(t)
    \/ PrintCheck(t) \/ PrintRead(t) \/ LogBegin(t) \/ LogLoop(t)

\* the calls of the owner: lifecycle and queries
OwnerCall(t) ==
    \/ CallInitialize(t) \/ CallReset(t) \/ CallPrintCurrent(t) \/ CallLog(t)

\* any number of threads use the series
Next ==
    \E t \in Threads :
        \/ OwnerCall(t)
        \/ \E n \in CallerLabels : CallAdd(t, n, MaxRecords)
        \/ CallAddAuto(t, MaxRecords)
        \/ Step(t)

Spec == Init /\ [][Next]_vars

\* the scheduler lets every thread that can take a step take one: a thread
\* inside a call runs on, and a thread waiting in lock() gets the mutex once
\* it stays free
Fairness == \A t \in Threads : WF_vars(Step(t))

SpecFair == Spec /\ Fairness

\* sequential use: one thread makes every call
MainThread == 1

NextSeq ==
    \/ OwnerCall(MainThread)
    \/ \E n \in CallerLabels : CallAdd(MainThread, n, MaxSeqRecords)
    \/ CallAddAuto(MainThread, MaxSeqRecords)
    \/ Step(MainThread)

SpecSeq == Init /\ [][NextSeq]_vars

\* the labelling of a long sequential session: one thread, up to
\* MaxLabelRecords records of which at most MaxExplicit carry a caller's label;
\* the clock stands at its last reading, every record carries the same time
IsCallerLabelled(r) == r.name \in CallerLabels

IsAutoLabelled(r) == r.name \notin CallerLabels

InitLabels == Constructed(MaxClock)

NextLabels ==
    \/ OwnerCall(MainThread)
    \/ \E n \in CallerLabels :
        /\ Len(SelectSeq(time_stamps, IsCallerLabelled)) < MaxExplicit
        /\ CallAdd(MainThread, n, MaxLabelRecords)
    \/ CallAddAuto(MainThread, MaxLabelRecords)
    \/ Step(MainThread)

SpecLabels == InitLabels /\ [][NextLabels]_vars

\* the formatting of durations: a session of MainThread that holds the
\* reference event, taken at time 0, and two events labelled by the caller,
\* taken at times drawn from Times; the series is then queried
Times ==
    {0, 50, 99, 100, 150, 99999, 100000, 150000, 99999999, 100000000,
     150000000, 1000000000}

InitFormat ==
    /\ TIMER_DEBUG \in BOOLEAN
    /\ NAME_TYPE \in NameTypes
    /\ \E first, second \in Times, n \in CallerLabels :
        /\ first <= second
        /\ time_stamps = <<TimeStamp(AutoName(0), MainThread, 0),
                           TimeStamp(n, MainThread, first),
                           TimeStamp(n, MainThread, second)>>
        /\ clock = second
    /\ id = (IF NAME_TYPE = "other" THEN 0 ELSE 1)
    /\ thread_ids = {MainThread}
    /\ multithreading_guard = NoThread
    /\ initialized = TIMER_DEBUG
    /\ number_of_events = (IF TIMER_DEBUG THEN 3 ELSE 0)
    /\ error = NoError
    /\ output = <<>>
    /\ accessed = {}
    /\ pc = [t \in Threads |-> "idle"]
    /\ op = [t \in Threads |-> "none"]
    /\ name = [t \in Threads |-> NoName]
    /\ tmp = [t \in Threads |-> 0]
    /\ slot = [t \in Threads |-> 0]
    /\ rec = [t \in Threads |-> NoRec]
    /\ length = [t \in Threads |-> 0]
    /\ i = [t \in Threads |-> 0]
    /\ reinit = FALSE
    /\ add_calls = 2
    /\ last_call = NoCall
    /\ raced = FALSE

NextFormat ==
    \/ CallPrintCurrent(MainThread)
    \/ CallLog(MainThread)
    \/ PrintCheck(MainThread)
    \/ PrintRead(MainThread)
    \/ LogBegin(MainThread)
    \/ LogLoop(MainThread)

SpecFormat == InitFormat /\ [][NextFormat]_vars

\* the order of appends: a Timer<int> whose threads call add(label) with a
\* label that names the calling thread and the number of the call among the
\* add calls of the session, in the order they were issued
Tag(t, k) == k * (NumThreads + 1) + t

Caller(n) == n % (NumThreads + 1)

Ticket(n) == n \div (NumThreads + 1)

InitOrder == Init /\ NAME_TYPE = "int"

NextOrder ==
    \E t \in Threads :
        \/ CallInitialize(t)
        \/ CallReset(t)
        \/ /\ add_calls # NoSession
           /\ CallAdd(t, Tag(t, add_calls + 1), MaxOrderRecords)
        \/ ResetDebug(t) \/ ResetClear(t) \/ ResetId(t) \/ ResetThreads(t)
        \/ InitCheck(t) \/ InitDebug(t)
        \/ AutoRead(t) \/ AutoIncr(t)
        \/ Lock(t) \/ AddCheck(t) \/ InsertThread(t) \/ Construct(t) \/ Push(t)
        \/ Unlock(t)

SpecOrder == InitOrder /\ [][NextOrder]_vars

\* the strict configuration: MainThread makes every call of a sequential
\* use, and any other thread may call initialize() while a thread is inside
\* initialize()
InitRace == Init /\ TIMER_DEBUG

NextRace ==
    \/ NextSeq
    \/ \E t \in Threads \ {MainThread} : CallInitializeRacing(t) \/ Step(t)

SpecRace == InitRace /\ [][NextRace]_vars

(***************************************************************************)
(* Properties.                                                             *)
(***************************************************************************)
AllIdle == \A t \in Threads : pc[t] = "idle"

\* a session is open: initialize() has returned and no reset() or
\* initialize() was called since
InSession == add_calls # NoSession

\* the decimal label of counter value k for the numeric and textual types
DecimalLabel(k) == IF NAME_TYPE = "int" THEN k ELSE to_string_int(k)

\* the records add() labelled, in append order
AutoRecords == SelectSeq(time_stamps, IsAutoLabelled)

\* thread t executes the statement at label in this step
Executes(t, label) == pc[t] = label /\ pc'[t] # label

\* C1: when every call has returned, a series that was initialized and then
\* received n add calls, from any threads in any interleaving, holds exactly
\* 1 + n records.
C1_RecordCount == (AllIdle /\ InSession) => size = 1 + add_calls

\* C1 witness: two add calls of two different threads have returned.
C1_Witness ==
    /\ AllIdle /\ InSession /\ add_calls = 2 /\ size = 3
    /\ time_stamps[2].thread_id # time_stamps[3].thread_id

\* every add call in progress was issued in an open session
AddsInSession == \A t \in Appending : InSession

\* C2: in valid use (add only after initialize()), every step of initialize(),
\* add(label), add() and reset() that writes time_stamps, id or thread_ids is
\* taken by the thread that holds multithreading_guard.
C2_WritesHoldGuard ==
    [][(AddsInSession /\ shared' # shared) =>
          /\ multithreading_guard \in Threads
          /\ pc'[multithreading_guard] # pc[multithreading_guard]]_vars

\* C3: after concurrent add() calls in a session of a numeric or textual
\* series, the auto-generated labels read in append order are 0, 1, 2, ...,
\* none used twice and none skipped.
C3_AutoLabelsInOrder ==
    (AllIdle /\ InSession /\ NAME_TYPE # "other") =>
        \A k \in 1 .. Len(AutoRecords) : AutoRecords[k].name = DecimalLabel(k - 1)

\* C4: in a sequential session of a numeric or textual series the k-th
\* auto-labelled append carries the decimal label k-1, for every k and however many
\* add(label) calls are interleaved, and the counter equals the number of
\* auto-labelled appends (add(label) leaves it, add() adds one).
C4_SequentialAutoLabels ==
    (AllIdle /\ InSession /\ NAME_TYPE # "other") =>
        /\ id = Len(AutoRecords)
        /\ \A k \in 1 .. Len(AutoRecords) : AutoRecords[k].name = DecimalLabel(k - 1)

\* position (1-based) of the first record of thread t
FirstRecord(t) ==
    CHOOSE k \in 1 .. size :
        /\ time_stamps[k].thread_id = t
        /\ \A j \in 1 .. (k - 1) : time_stamps[j].thread_id # t

\* 0-based position of t in the order in which threads were first observed
DiscoveryIndex(t) ==
    Cardinality({u \in thread_ids : FirstRecord(u) < FirstRecord(t)})

\* C5: within a session the index get_thread_name gives a thread that has
\* appended never changes, whichever threads append later, and it is the
\* thread's position in the order of first observation.
C5_ThreadIndexStable ==
    [][(InSession /\ InSession') =>
          /\ \A t \in thread_ids \cap thread_ids' :
                 get_thread_name(t)' = get_thread_name(t)
          /\ AllIdle' => \A t \in thread_ids' :
                 get_thread_name(t)' = DiscoveryIndex(t)']_vars

\* C6: in every reachable state the time stamps of the records are
\* non-decreasing in append order, so get_time_since_last(i) >= 0 for every
\* index 1 <= i < size.
C6_TimeStampsOrdered ==
    \A index \in 1 .. (size - 1) :
        /\ At(index - 1).time_stamp <= At(index).time_stamp
        /\ get_time_since_last(index) >= 0

\* C6 witness: records of two different threads, the later one with a later
\* time stamp, while another add call waits for the guard.
C6_Witness ==
    /\ size = 2
    /\ At(0).thread_id # At(1).thread_id
    /\ At(0).time_stamp < At(1).time_stamp
    /\ \E t \in Threads : pc[t] = "lock" /\ multithreading_guard \notin {t, NoThread}

\* initialize() returns in this step
InitializeReturns == op[MainThread] = "initialize" /\ pc'[MainThread] = "idle"

C8_AddBeforeInitReported ==
    [][(/\ TIMER_DEBUG
        /\ op[MainThread] \in {"add", "add_auto"}
        /\ Executes(MainThread, "add_check")) =>
          IF InSession
          THEN error' = NoError
          ELSE error' = ErrAddBeforeInit /\ time_stamps' = time_stamps]_vars

\* C8 witness: an add call after reset() was reported, the series is empty.
C8_Witness ==
    /\ error = ErrAddBeforeInit /\ size = 0
    /\ op[MainThread] \in {"add", "add_auto"}
    /\ clock > 0

\* C9: strict configuration: print_current() reports a usage error exactly
\* when fewer than two records exist; otherwise it prints the last record.
C9_PrintCurrentLoggable ==
    [][/\ (TIMER_DEBUG /\ Executes(MainThread, "print_check")) =>
              (error' = ErrNotLoggable <=> size < 2)
       /\ (TIMER_DEBUG /\ Executes(MainThread, "print_read")) =>
              /\ error' = NoError
              /\ size >= 2
              /\ (size - 1) \in accessed'
              /\ Len(output') = 1
              /\ output'[1].name = time_stamps[size].name]_vars

\* C9 witness: print_current() was reported on a series that holds only the
\* reference event.
C9_Witness == error = ErrNotLoggable /\ size = 1 /\ InSession

\* C10 as claimed: production configuration: no query reads time_stamps
\* outside 0..size-1.
C10_MisuseInRange == ~TIMER_DEBUG => accessed \subseteq InRange

\* C10 as amended: production configuration: print_current() on two or more
\* records and log() read inside 0..size-1, and add(), also before
\* initialize(), writes its record at the end of the vector; print_current()
\* on fewer than two records reads index 2^64-1, outside the vector.
C10_InRangeFromTwoRecords ==
    ~TIMER_DEBUG =>
        /\ size >= 2 => accessed \subseteq InRange
        /\ size = 1 => accessed \in {{}, {0, UInt64(0 - 1)}}
        /\ size = 0 => accessed \in {{}, {0, UInt64(0 - 1), UInt64(0 - 2)}}
        /\ \A t \in Threads : pc[t] = "push" => slot[t] = size

\* C10 witness: print_current() on a series holding only the reference event
\* has read outside the vector and returned.
C10_Witness ==
    /\ ~TIMER_DEBUG /\ AllIdle /\ size = 1
    /\ UInt64(0 - 1) \in accessed

\* the threads that recorded the records of the series
Recorders == {time_stamps[k].thread_id : k \in 1 .. size}

\* the thread clause of an output line for n recording threads
ThreadClause(line, n) ==
    /\ line.thread # <<>> <=> n > 1
    /\ line.thread # <<>> => line.thread[1] \in 0 .. (n - 1)

\* C11: a line print_current() or log() makes for a stored record carries the
\* thread clause exactly when the records of the series were appended by more
\* than one distinct thread, whenever the record itself was appended, and the
\* index in the clause is one of 0..n-1 for n recording threads, never -1.
C11_ThreadClauseFromTwoThreads ==
    [][\A t \in Threads :
        /\ (Executes(t, "print_read") /\ PrintReads \subseteq InRange) =>
               ThreadClause(output'[1], Cardinality(Recorders))
        /\ (pc[t] = "log_loop" /\ i[t] < length[t]) =>
               ThreadClause(output'[Len(output')], Cardinality(Recorders))]_vars

\* C11 witness: log() has printed the clause on the line of a record that
\* was appended before the second thread made its first append.
C11_Witness ==
    /\ AllIdle /\ InSession /\ size = 3 /\ Len(output) = 3
    /\ At(0).thread_id = At(1).thread_id
    /\ At(1).thread_id # At(2).thread_id
    /\ output[2].thread # <<>>
    /\ output[3].thread # <<>>

\* reset() returns in this step
ResetReturns == op[MainThread] = "reset" /\ pc'[MainThread] = "idle"

\* the series is empty after this step
EmptyAfterwards ==
    /\ time_stamps' = <<>>
    /\ id' = 0
    /\ thread_ids' = {}
    /\ TIMER_DEBUG => (~initialized' /\ number_of_events' = 0)

\* record r carries the decimal label of k; the value-initialized label of
\* any other label type is not a decimal label
Labelled(r, k) == NAME_TYPE # "other" /\ r.name = DecimalLabel(k)

\* C12 as claimed: reset() called in any state returns with no records, the
\* counter at 0, no known threads and (strict configuration) the tracker not
\* initialized with zero events; an initialize() that follows it returns with
\* a reference event labelled 0.
C12_ResetToEmpty ==
    [][/\ ResetReturns => EmptyAfterwards
       /\ (InitializeReturns /\ last_call.op = "reset") =>
              /\ size' = 1
              /\ Labelled(time_stamps'[1], 0)]_vars

\* C12 as amended: the same, the reference event of the new session being
\* labelled 0 for the numeric and textual label types and carrying the
\* value-initialized label for any other label type.
C12_ResetToEmptyByType ==
    [][/\ ResetReturns => EmptyAfterwards
       /\ (InitializeReturns /\ last_call.op = "reset") =>
              /\ size' = 1
              /\ time_stamps'[1].name =
                     (IF NAME_TYPE = "other" THEN DefaultName ELSE DecimalLabel(0))]_vars

\* C12 witness: strict configuration, reset() has returned on a series that
\* had held records.
C12_Witness ==
    /\ TIMER_DEBUG /\ AllIdle /\ error = NoError
    /\ size = 0 /\ clock > 0 /\ ~initialized /\ number_of_events = 0

\* log() of thread t returns in this step
LogReturns(t) == op[t] = "log" /\ pc'[t] = "idle"

\* C13: log() writes the header and then one line for each record at index
\* 1..size-1, in append order, with the record's label, the formatted time
\* since the record before it and the formatted time since record 0; no line
\* for the reference event, and the header alone for a series that is empty
\* or holds only the reference event.
C13_LogLines ==
    [][\A t \in Threads : LogReturns(t) =>
          /\ Len(output') = (IF size = 0 THEN 1 ELSE size)
          /\ output'[1] = HeaderLine
          /\ \A k \in 2 .. Len(output') :
                /\ output'[k].name = time_stamps[k].name
                /\ output'[k].after =
                      to_string(time_stamps[k].time_stamp - time_stamps[k - 1].time_stamp)
                /\ output'[k].at =
                      to_string(time_stamps[k].time_stamp - time_stamps[1].time_stamp)]_vars

\* C13 witness: log() has returned on a series of three records, the second
\* taken later than the reference event and the third at the time of the
\* second.
C13_Witness ==
    /\ AllIdle /\ last_call.op = "log" /\ size = 3
    /\ Len(output) = 3
    /\ output[2].after.value > 0
    /\ output[3].after.value = 0
    /\ output[3].at.value > 0

\* the read-only queries
Queries == {"print_current", "log"}

\* C14: no step of print_current() or log(), from the call to the return,
\* changes time_stamps, id, thread_ids or the tracker, and a log() that
\* returns right after another log() returned has written the same lines.
C14_QueriesReadOnly ==
    [][/\ (\E t \in Threads : op[t] \in Queries \/ op'[t] \in Queries) =>
              UNCHANGED <<shared, tracker>>
       /\ \A t \in Threads : (LogReturns(t) /\ last_call.op = "log") =>
              output' = last_call.output]_vars

\* C14 witness: a second log() in a row has written the lines of the first,
\* three of them, and is about to return.
C14_Witness ==
    /\ last_call.op = "log"
    /\ \E t \in Threads :
          /\ pc[t] = "log_loop" /\ i[t] = length[t]
          /\ Len(output) = 3
          /\ output = last_call.output

\* text is the format of time the scale policy names: seconds from
\* 100,000,000 ns, milliseconds from 100,000 ns, microseconds from 100 ns,
\* nanoseconds below, each lower bound included
FormattedByPolicy(time, text) ==
    /\ text.value = time
    /\ IF time >= 100000000 THEN text.divisor = 1000000000 /\ text.suffix = "s"
       ELSE IF time >= 100000 THEN text.divisor = 1000000 /\ text.suffix = "ms"
       ELSE IF time >= 100 THEN text.divisor = 1000 /\ text.suffix = "µs"
       ELSE text.divisor = 1 /\ text.suffix = "ns"

\* the line written for the record at index shows its two durations in the
\* format of the scale policy
LineByPolicy(line, index) ==
    /\ FormattedByPolicy(get_time_since_last(index), line.after)
    /\ FormattedByPolicy(get_time_since_init(index), line.at)

\* C15: every duration print_current() and log() write is formatted by the
\* first matching row of the scale policy: >= 100,000,000 ns as seconds
\* (divisor 1,000,000,000, suffix "s"), else >= 100,000 ns as milliseconds
\* (1,000,000, "ms"), else >= 100 ns as microseconds (1,000, "µs"), else as
\* nanoseconds ("ns"); 100 ns is written in microseconds, 99 ns in nanoseconds.
C15_ScalePolicy ==
    [][\A t \in Threads :
        /\ (Executes(t, "print_read") /\ PrintReads \subseteq InRange) =>
               LineByPolicy(output'[1], PrintIndex)
        /\ (pc[t] = "log_loop" /\ i[t] < length[t]) =>
               LineByPolicy(output'[Len(output')], i[t])]_vars

\* C16: in every reachable state get_time_since_init(0) = 0 and, for every
\* index 1 <= i < size, get_time_since_init(i) =
\* get_time_since_init(i - 1) + get_time_since_last(i), neither of the two
\* being negative.
C16_Additivity ==
    /\ size >= 1 => get_time_since_init(0) = 0
    /\ \A index \in 1 .. (size - 1) :
          /\ get_time_since_init(index) =
                get_time_since_init(index - 1) + get_time_since_last(index)
          /\ get_time_since_init(index) >= 0
          /\ get_time_since_last(index) >= 0

\* C16 witness: three records of two threads, the second taken later than
\* the reference event, every call returned.
C16_Witness ==
    /\ AllIdle /\ InSession /\ size = 3
    /\ get_time_since_init(1) > 0
    /\ get_time_since_init(2) = get_time_since_init(1) + get_time_since_last(2)
    /\ Cardinality(Recorders) = 2

\* C17: in a session whose threads call add(label) concurrently, each record
\* after the reference event carries the thread that called add, and two
\* records of the same thread lie in the order in which that thread issued
\* the two calls.
C17_ProgramOrder ==
    InSession =>
        /\ \A k \in 2 .. size :
              time_stamps[k].thread_id = Caller(time_stamps[k].name)
        /\ \A j, k \in 2 .. size :
              (j < k /\ time_stamps[j].thread_id = time_stamps[k].thread_id) =>
                  Ticket(time_stamps[j].name) < Ticket(time_stamps[k].name)

\* C17 witness: the call issued second was appended before the call issued
\* first, by another thread, and the thread appended last made a second call
\* that was appended after its first.
C17_Witness ==
    /\ AllIdle /\ InSession /\ size = 4
    /\ Ticket(At(1).name) > Ticket(At(2).name)
    /\ At(1).thread_id # At(2).thread_id
    /\ At(3).thread_id = At(2).thread_id

\* labels of the statements inside the guarded section of add(NAME_TYPE)
Guarded == {"add_check", "insert", "construct", "push", "unlock"}

\* some thread is inside a call and the process has not been terminated
CallInProgress == Running /\ \E t \in Threads : pc[t] # "idle"

\* C18: under fair scheduling every add call started in a session returns,
\* after it has taken the guard; the guard is only ever held by a thread
\* inside the guarded section of add; and whenever a call is in progress some
\* thread can take a step.
C18_AddReturns ==
    /\ [](Running =>
            \A t \in Threads : multithreading_guard = t => pc[t] \in Guarded)
    /\ [](CallInProgress => \E t \in Threads : ENABLED Step(t))
    /\ \A t \in Threads :
          /\ (pc[t] = "lock" /\ InSession) ~> (multithreading_guard = t)
          /\ (multithreading_guard = t /\ InSession) ~> (pc[t] = "idle")

\* C18 witness: in a session an add call waits in lock() while another
\* thread is inside the guarded section.
C18_Witness ==
    /\ InSession
    /\ \E t, u \in Threads :
          /\ t # u
          /\ pc[t] = "lock" /\ op[t] \in {"add", "add_auto"}
          /\ multithreading_guard = u /\ pc[u] = "push"

\* no initialize(), reset() or add call is in progress
NoWriter == \A t \in Threads : op[t] \in Queries \cup {"none"}

\* C19: whenever no initialize(), reset() or add call is in progress,
\* thread_ids is exactly the set of the threads that recorded the stored
\* records, get_thread_name finds the thread of every stored record, and the
\* counter is 0 if the series is empty.
C19_KnownThreadsAreRecorders ==
    NoWriter =>
        /\ thread_ids = Recorders
        /\ \A k \in 1 .. size : get_thread_name(time_stamps[k].thread_id) # 0 - 1
        /\ size = 0 => id = 0

\* C19 witness: log() is writing the lines of a series recorded by two
\* threads.
C19_Witness ==
    /\ NoWriter
    /\ \E t \in Threads : pc[t] = "log_loop" /\ i[t] = 2
    /\ Cardinality(thread_ids) = 2
    /\ size = 3

\* C20: strict configuration: as long as no two initialize() calls have
\* overlapped, debug_init() never reports a second call and, between calls
\* that raised no usage error, initialized is true exactly when the series
\* holds records and number_of_events is the number of records.
C20_TrackerMirrorsSeries ==
    (TIMER_DEBUG /\ ~raced) =>
        /\ error # ErrInitTwice
        /\ (AllIdle /\ error = NoError) =>
              /\ initialized <=> size > 0
              /\ number_of_events = size

\* C20 witness: two threads called initialize() on a series that never held
\* a record, and debug_init() reported the second call.
C20_Witness ==
    /\ TIMER_DEBUG /\ raced /\ error = ErrInitTwice
    /\ clock = 0 /\ size = 0 /\ last_call = NoCall
    /\ \A t \in Threads : op[t] \in {"initialize", "none"}

====
